---------------------------- MODULE Spec2Model ----------------------------
(***************************************************************************)
(* Model of the news alert backend (bnicolas94/alertas):                   *)
(*   backend/news_poller.py  poll_news, classify, to_iso_utc, ...          *)
(*   backend/main.py         _push_history, _broadcast, broadcaster_task,  *)
(*                           ws_news, _on_shutdown                         *)
(*   backend/gdelt_client.py fetch_csv (its row loop, the rows it returns) *)
(*                                                                         *)
(* All coroutines run on one asyncio event loop: a coroutine runs without  *)
(* interruption from one suspension point to the next.  An action of this  *)
(* module is one such uninterrupted run.                                   *)
(***************************************************************************)
EXTENDS Naturals, Integers, Sequences, FiniteSets, TLC

VARIABLES
    \* ---- poll_news (news_poller.py) ----
    ppc,         \* position of poll_news: "entry" | "fetching" | "sleeping"
    seen,        \* local `seen`: set of poll-loop dedup keys
    backoff,     \* local `backoff`
    rows,        \* local `rows`: the batch fetch_csv returned last
    reader,      \* fetch_csv's `reader`: the records of the response being parsed
    cycle,       \* number of iterations of `while True` started
    fails,       \* history variable: consecutive failed cycles so far
    clock,       \* the wall clock read by iso_now_utc (whole seconds, abstract)
    \* ---- the channel ----
    news_queue,  \* asyncio.Queue contents, oldest first
    pushed,      \* history variable: every object ever put on the queue
    \* ---- history (main.py) ----
    history,     \* _history
    seen_keys,   \* _seen_keys
    noid,        \* number of event objects created so far (object identity)
    \* ---- broadcaster_task / _broadcast (main.py) ----
    bpc,         \* "get" (awaiting news_queue.get) | "send" (inside _broadcast)
    bevt,        \* local `evt`
    targets,     \* list(clients), taken when _broadcast starts
    pending,     \* the part of it not yet iterated
    dead,        \* local `dead`
    \* ---- ws_news handlers and the registry (main.py) ----
    clients,     \* the set `clients`
    wpc,         \* per websocket: "new" | "replay" | "listen" | "done"
                 \* (returned after listening) | "closing" (in ws.close()
                 \* after a failed replay) | "closed" (returned after it)
    conn,        \* per websocket: "open" | "closed" (the transport)
    replay,      \* per websocket: rest of the snapshot _history[-MAX_HISTORY:]
    recv,        \* history variable: what each websocket was sent, in order
    need,        \* history variable: oids owed to a websocket since its join
    \* ---- classify driver ----
    ctitle,      \* a title handed to classify
    ccat,        \* what classify returned for it ("" before the call)
    \* ---- _on_shutdown and the two tasks (main.py) ----
    spc,         \* position of _on_shutdown: "idle" (not called) |
                 \* "await_poller" | "await_bcast" (at `await task`) |
                 \* "done" (returned) | "raised" (left by an exception)
    ptask,       \* app.state.poller_task: "running" | "cancelling" | "cancelled"
    btask,       \* app.state.broadcast_task: the same
    cancelled_is_exception
                 \* whether asyncio.CancelledError is an Exception for the
                 \* interpreter (Python 3.7: yes; 3.8 and later: no);
                 \* NoneVal until _on_shutdown runs

vars == << ppc, seen, backoff, rows, reader, cycle, fails, clock, news_queue,
           pushed, history, seen_keys, noid, bpc, bevt, targets, pending,
           dead, clients, wpc, conn, replay, recv, need, ctitle, ccat,
           spc, ptask, btask, cancelled_is_exception >>

pollVars  == << ppc, seen, backoff, rows, reader, cycle, fails, clock >>
chanVars  == << news_queue, pushed >>
histVars  == << history, seen_keys, noid >>
bcastVars == << bpc, bevt, targets, pending, dead >>
wsVars    == << clients, wpc, conn, replay, recv, need >>
clsVars   == << ctitle, ccat >>
shutVars  == << spc, ptask, btask, cancelled_is_exception >>

(***************************************************************************)
(* Bounds of the model                                                     *)
(***************************************************************************)
\* main.py:31 sets MAX_HISTORY = 300; the model runs the same code with a
\* small capacity so that evictions happen.
MAX_HISTORY == 2
\* Spec: iterations of poll_news' `while True`, and rows in one fetched batch
MaxCycles == 2
MaxBatch == 1
\* SpecPoll: the same two bounds
MaxPollCycles == 5
MaxPollBatch == 1
\* calls of _push_history explored in SpecHist
MaxInserts == 4
\* words in a title handed to classify in SpecClassify
MaxTitleLen == 7
\* SpecFetch: records in one response
MaxRawBatch == 2

(***************************************************************************)
(* Program constants                                                       *)
(***************************************************************************)
POLL_INTERVAL_SEC == 30
BACKOFF_MAX == 300

(***************************************************************************)
(* Python values                                                           *)
(***************************************************************************)
NoneVal == "<None>"

\* the value of an event variable not assigned yet
NoObj == [oid |-> 0, evt |-> [unset |-> TRUE]]

\* dict.get(k)
Get(d, k) == IF k \in DOMAIN d THEN d[k] ELSE NoneVal

\* Python's `a or b` on str/None
Or(a, b) == IF a # NoneVal /\ a # "" THEN a ELSE b

\* Strings are handled character by character: Char(s, i) is s[i-1:i].
Char(s, i) == SubSeq(s, i, i)

\* the ASCII characters for which str.isspace() holds: space, \t, \n, \r,
\* \f and, written as the characters themselves, VT (0x0b), FS, GS, RS, US
\* (0x1c-0x1f); the strings of the model are ASCII
IsSpace(ch) ==
    ch \in {" ", "\t", "\n", "\r", "\f", "", "", "", "", ""}

RECURSIVE LStrip(_)
LStrip(s) ==
    IF s # "" /\ IsSpace(Char(s, 1)) THEN LStrip(SubSeq(s, 2, Len(s))) ELSE s

RECURSIVE RStrip(_)
RStrip(s) ==
    IF s # "" /\ IsSpace(Char(s, Len(s))) THEN RStrip(SubSeq(s, 1, Len(s) - 1)) ELSE s

\* str.strip()
Strip(s) == RStrip(LStrip(s))

\* str.startswith(p)
StartsWith(s, p) == Len(s) >= Len(p) /\ SubSeq(s, 1, Len(p)) = p

\* str.lower() (ASCII letters)
LowerChar(ch) ==
    CASE ch = "A" -> "a" [] ch = "B" -> "b" [] ch = "C" -> "c" [] ch = "D" -> "d"
      [] ch = "E" -> "e" [] ch = "F" -> "f" [] ch = "G" -> "g" [] ch = "H" -> "h"
      [] ch = "I" -> "i" [] ch = "J" -> "j" [] ch = "K" -> "k" [] ch = "L" -> "l"
      [] ch = "M" -> "m" [] ch = "N" -> "n" [] ch = "O" -> "o" [] ch = "P" -> "p"
      [] ch = "Q" -> "q" [] ch = "R" -> "r" [] ch = "S" -> "s" [] ch = "T" -> "t"
      [] ch = "U" -> "u" [] ch = "V" -> "v" [] ch = "W" -> "w" [] ch = "X" -> "x"
      [] ch = "Y" -> "y" [] ch = "Z" -> "z" [] OTHER -> ch

RECURSIVE Lower(_)
Lower(s) ==
    IF s = "" THEN "" ELSE LowerChar(Char(s, 1)) \o Lower(SubSeq(s, 2, Len(s)))

\* str.replace(" ", "T")
RECURSIVE ReplaceSpaceT(_)
ReplaceSpaceT(s) ==
    IF s = "" THEN ""
    ELSE (IF Char(s, 1) = " " THEN "T" ELSE Char(s, 1))
         \o ReplaceSpaceT(SubSeq(s, 2, Len(s)))

\* What is fixed outside the source for one process:
\*   langdetect  whether `from langdetect import ...` succeeds, which binds
\*               the first (lines 24-31) or the second (lines 34-35)
\*               definition of safe_detect_lang;
\*   detect      the code langdetect's detect() gives for a title;
\*   iso_basic   whether datetime.fromisoformat accepts the basic format
\*               and a trailing "Z" (Python 3.11 and later).
Builds == [langdetect : BOOLEAN, detect : {"en", "de"}, iso_basic : BOOLEAN]

Min(a, b) == IF a <= b THEN a ELSE b

Range(s) == { s[i] : i \in 1..Len(s) }

(***************************************************************************)
(* main.py: the history buffer                                             *)
(***************************************************************************)
\* An event object is [oid |-> identity, evt |-> the dict].

dedup_key(evt) ==
    LET title == Strip(Or(Get(evt, "headline"), ""))
        ts    == Strip(Or(Or(Get(evt, "ts"), Get(evt, "timestamp")), ""))
        url   == Strip(Or(Get(evt, "url"), ""))
    IN  Or(url, title \o "|" \o ts)

\* Variant of trim_history that never evicts.
trim_history_never(h, k) == [h |-> h, k |-> k]

\* Variant of trim_history that pops the oldest element and keeps its key.
trim_history_keepkeys(h, k) ==
    [h |-> IF Len(h) > MAX_HISTORY
           THEN SubSeq(h, Len(h) - MAX_HISTORY + 1, Len(h)) ELSE h,
     k |-> k]

\* lines 51-53: while len(_history) > MAX_HISTORY: pop(0), discard its key
RECURSIVE trim_history(_, _)
trim_history(h, k) ==
    IF Len(h) > MAX_HISTORY
    THEN trim_history(Tail(h), k \ {dedup_key(Head(h).evt)})
    ELSE [h |-> h, k |-> k]

\* Variant of push_history_skips that ignores the key set.
push_history_skips_emptyonly(key, k) == key = ""

\* line 46: the early return of _push_history
push_history_skips(key, k) == key = "" \/ key \in k

\* Variant of push_history that pops index 1 where the code pops index 0.
push_history_pop1(h, k, obj) ==
    LET key == dedup_key(obj.evt)
        h1  == Append(h, obj)
    IN  IF push_history_skips(key, k)
        THEN [h |-> h, k |-> k]
        ELSE IF Len(h1) > MAX_HISTORY
             THEN [h |-> <<Head(h1)>> \o Tail(Tail(h1)),
                   k |-> (k \cup {key}) \ {dedup_key(h1[2].evt)}]
             ELSE [h |-> h1, k |-> k \cup {key}]

\* _push_history(evt) on the state (h, k); the result is the new state
push_history(h, k, obj) ==
    LET key == dedup_key(obj.evt)
    IN  IF push_history_skips(key, k)
        THEN [h |-> h, k |-> k]
        ELSE trim_history(Append(h, obj), k \cup {key})

(***************************************************************************)
(* news_poller.py: enrichment.  A title is its sequence of words (the      *)
(* maximal runs of word characters that \b delimits).                      *)
(***************************************************************************)
\* " ".join(words): the title as the str the code holds
RECURSIVE Text(_)
Text(t) ==
    IF t = << >> THEN ""
    ELSE IF Len(t) = 1 THEN t[1]
    ELSE t[1] \o " " \o Text(Tail(t))

\* some word of A is followed, later in the title, by a word of B:
\* \b(a1|a2)\b.*\b(b1|b2)\b
Follows(t, A, B) ==
    \E i \in 1..Len(t) : \E j \in 1..Len(t) :
        i < j /\ Lower(t[i]) \in A /\ Lower(t[j]) \in B

\* some word of A is followed, later in the title, by the words <<b1, b2>>
FollowsPair(t, A, b1, b2) ==
    \E i \in 1..Len(t) : \E j \in 1..Len(t) :
        /\ i < j /\ j + 1 <= Len(t)
        /\ Lower(t[i]) \in A /\ Lower(t[j]) = b1 /\ Lower(t[j + 1]) = b2

Has(t, A) == \E i \in 1..Len(t) : Lower(t[i]) \in A

RE_GOV_STAKE(t) ==
    Follows(t, {"government", "state"}, {"stake", "equity", "share"})
RE_CEO_RESIGN(t) ==
    \/ Follows(t, {"ceo", "cfo"}, {"resign", "resigns", "resignation"})
    \/ FollowsPair(t, {"ceo", "cfo"}, "steps", "down")
RE_MA(t) ==
    Has(t, {"acquisition", "acquire", "acquired", "merger", "merging", "combine"})
RE_EARNINGS(t) == Has(t, {"earnings", "guidance", "eps", "revenue"})
RE_CONTRACT(t) == Has(t, {"contract", "award", "offtake", "mou"})

\* Variant of classify that tests the earnings rule before the M&A rule.
classify_earnings_first(title) ==
    IF RE_GOV_STAKE(title) THEN "GovStake"
    ELSE IF RE_CEO_RESIGN(title) THEN "CEOResignation"
    ELSE IF RE_EARNINGS(title) THEN "Earnings"
    ELSE IF RE_MA(title) THEN "M&A"
    ELSE IF RE_CONTRACT(title) THEN "Contract"
    ELSE "News"

classify(title) ==
    IF RE_GOV_STAKE(title) THEN "GovStake"
    ELSE IF RE_CEO_RESIGN(title) THEN "CEOResignation"
    ELSE IF RE_MA(title) THEN "M&A"
    ELSE IF RE_EARNINGS(title) THEN "Earnings"
    ELSE IF RE_CONTRACT(title) THEN "Contract"
    ELSE "News"

\* news_poller.py:51-55
STOP_UPPER ==
    { "THE", "AND", "FOR", "WITH", "FROM", "THIS", "THAT", "WAS", "WILL", "HAVE",
      "HAS", "USA", "US", "CEO", "CFO", "DOE", "DOD", "IPO", "ETF", "FDA", "SEC",
      "EU", "UK", "LITHIUM", "OIL", "GAS", "BANK", "NEWS", "MERGER",
      "ACQUISITION", "Q1", "Q2", "Q3", "Q4" }

\* UPPER_TOKEN = \b[A-Z]{2,5}\b on the words of the model
UPPER_TOKEN(w) == w \in {"CEO", "ACME", "US"}

RECURSIVE guess_tickers_loop(_, _)
guess_tickers_loop(t, out) ==
    IF t = << >> THEN out
    ELSE LET tok == Head(t)
         IN  IF UPPER_TOKEN(tok) /\ tok \notin STOP_UPPER /\ tok \notin Range(out)
             THEN guess_tickers_loop(Tail(t), Append(out, tok))
             ELSE guess_tickers_loop(Tail(t), out)

guess_tickers(title) ==
    LET out == guess_tickers_loop(title, << >>)
    IN  SubSeq(out, 1, Min(Len(out), 6))

\* lines 21-35: the definition bound at import, on build b
safe_detect_lang(title, b) ==
    IF ~b.langdetect THEN "unk"
    ELSE IF Strip(Text(title)) = "" THEN "unk"
    ELSE Lower(Or(b.detect, "unk"))

\* lines 143-153
normalize_lang(lang) ==
    IF lang = "" THEN "unk"
    ELSE LET l == Lower(Strip(lang))
         IN  IF StartsWith(l, "es") \/ l = "spanish" THEN "es"
             ELSE IF StartsWith(l, "en") \/ l = "english" THEN "en"
             ELSE l

\* iso_now_utc() when the wall clock shows second c
iso_now_utc(c) == "2026-01-01T00:00:0" \o ToString(c) \o "Z"

\* strptime(date_str, "%Y%m%d%H%M%S").isoformat() on the dates of the model
ParseCompact(d) ==
    IF d = "20250926195022" THEN "2025-09-26T19:50:22" ELSE NoneVal

\* the dates of the model that datetime.fromisoformat parses from Python
\* 3.11 on and rejects before
IsoBasicDates == {"20250926T195022Z", "2025-09-26T19:50:22Z"}

\* datetime.fromisoformat(s) on the dates of the model: whether it parses,
\* whether the result has a tzinfo, its isoformat() if naive and the
\* isoformat() of its astimezone(utc) if aware
ParseIso(s, b) ==
    CASE s = "2025-09-26T19:50:22" ->
            [ok |-> TRUE, aware |-> FALSE, iso |-> "2025-09-26T19:50:22"]
      [] s = "2025-09-26T19:50:22+02:00" ->
            [ok |-> TRUE, aware |-> TRUE, iso |-> "2025-09-26T17:50:22+00:00"]
      [] s \in IsoBasicDates /\ b.iso_basic ->
            [ok |-> TRUE, aware |-> TRUE, iso |-> "2025-09-26T19:50:22+00:00"]
      [] OTHER -> [ok |-> FALSE, aware |-> FALSE, iso |-> ""]

\* parsedate_to_datetime(date_str).astimezone(utc).isoformat() on the dates
\* of the model
ParseRfc2822(d) ==
    CASE d = "Fri, 26 Sep 2025 19:50:22 +0200" -> "2025-09-26T17:50:22+00:00"
      [] d = "Fri, 26 Sep 2025 19:50:22 GMT"   -> "2025-09-26T19:50:22+00:00"
      [] OTHER -> NoneVal

\* lines 69-91
to_iso_utc(d, c, b) ==
    IF d = "" THEN iso_now_utc(c)
    ELSE IF ParseCompact(d) # NoneVal THEN ParseCompact(d) \o "Z"
    ELSE LET dt == ParseIso(ReplaceSpaceT(d), b)
         IN  IF dt.ok THEN (IF dt.aware THEN dt.iso ELSE dt.iso \o "Z")
             ELSE IF ParseRfc2822(d) # NoneVal THEN ParseRfc2822(d)
             ELSE iso_now_utc(c)

(***************************************************************************)
(* news_poller.py: poll_news                                               *)
(***************************************************************************)
\* Rows fetch_csv can return: stripped fields, title or url non-empty.
RowUrl ==
    [date |-> "20250926195022", title |-> <<"CEO", "resigns">>,
     url |-> "http://a.com/1", domain |-> "a.com", language |-> "english"]
RowCompact ==
    [date |-> "20250926195022", title |-> <<"ACME", "merger">>,
     url |-> "", domain |-> "", language |-> "en"]
RowIso ==
    [date |-> "2025-09-26 19:50:22", title |-> <<"ACME", "merger">>,
     url |-> "", domain |-> "", language |-> "en-gb"]
RowNoTitle ==
    [date |-> "", title |-> << >>,
     url |-> "http://b.com/2", domain |-> "b.com", language |-> "es-es"]
\* a row without language: line 199 detects it from the title
RowRfc ==
    [date |-> "Fri, 26 Sep 2025 19:50:22 +0200", title |-> <<"US", "contract">>,
     url |-> "http://c.com/3", domain |-> "c.com", language |-> ""]
RowBasic ==
    [date |-> "20250926T195022Z", title |-> <<"ACME", "earnings">>,
     url |-> "", domain |-> "", language |-> "de"]

(***************************************************************************)
(* gdelt_client.py: the row loop of fetch_csv.  A record is what           *)
(* csv.DictReader yields for one line: a field missing from a short line   *)
(* is None.                                                                *)
(***************************************************************************)
RawUrl ==
    [title |-> <<"CEO", "resigns">>, url |-> "http://a.com/1 ",
     date |-> " 20250926195022", language |-> "English", domain |-> ""]
RawCompact ==
    [title |-> <<"ACME", "merger">>, url |-> "",
     date |-> "20250926195022", language |-> "", domain |-> ""]
RawShort ==
    [title |-> <<"US", "contract">>, url |-> NoneVal,
     date |-> NoneVal, language |-> NoneVal, domain |-> NoneVal]
RawBlank ==
    [title |-> << >>, url |-> " ", date |-> "", language |-> "", domain |-> ""]

RawFeed == {RawUrl, RawCompact, RawShort, RawBlank}

\* urlparse(urlval).netloc on the urls of the model
netloc(u) ==
    CASE u = "http://a.com/1" -> "a.com"
      [] u = "http://b.com/2" -> "b.com"
      [] u = "http://c.com/3" -> "c.com"
      [] OTHER                -> ""

\* lines 82-86: `.strip()` is called on the value of each field, which
\* raises AttributeError on None
row_raises(raw) ==
    \E f \in {"title", "url", "date", "language", "domain"} : raw[f] = NoneVal

\* lines 94-95
row_dropped(raw) == raw.title = << >> /\ Strip(raw.url) = ""

\* lines 82-103: the row appended for a record
normalize_row(raw) ==
    LET urlval == Strip(raw.url)
        dom    == Lower(Strip(raw.domain))
    IN  [ date     |-> Strip(raw.date),
          title    |-> raw.title,
          url      |-> urlval,
          domain   |-> IF dom = "" /\ StartsWith(urlval, "http")
                       THEN Lower(netloc(urlval)) ELSE dom,
          language |-> Lower(Strip(raw.language)) ]

\* lines 81-105: the loop over the records, `acc` the rows appended so far
RECURSIVE fetch_rows(_, _)
fetch_rows(raws, acc) ==
    IF raws = << >> THEN [raised |-> FALSE, rows |-> acc]
    ELSE IF row_raises(Head(raws)) THEN [raised |-> TRUE, rows |-> << >>]
    ELSE IF row_dropped(Head(raws)) THEN fetch_rows(Tail(raws), acc)
    ELSE fetch_rows(Tail(raws), Append(acc, normalize_row(Head(raws))))

\* the rows the source lists in SpecPoll, and in Spec
Feed == {RowUrl, RowCompact, RowIso, RowNoTitle}
LiveFeed == {RowUrl, RowIso}

\* the batches of at most n rows of F
Batches(F, n) == UNION { [1..m -> F] : m \in 0..n }

\* lines 164-173 (string literals written in ASCII here)
seed_event(c) ==
    [ headline |-> "Fuente conectada (seed de prueba)",
      summary  |-> "WS y UI OK - filtros en el FRONT",
      tickers  |-> <<"TEST">>,
      category |-> "Info",
      url      |-> "",
      ts       |-> iso_now_utc(c),
      domain   |-> "",
      language |-> "es" ]

\* lines 192-194, 201
poll_dedup_key(r) ==
    Or(Strip(Or(r.url, "")), Text(r.title) \o "|" \o Strip(Or(r.date, "")))

\* Variant of poll_skips that ignores `seen`.
poll_skips_emptyonly(key, sn) == key = ""

\* line 202
poll_skips(key, sn) == key = "" \/ key \in sn

\* Variant of make_event without the placeholder headline.
make_event_no_placeholder(r, c, b) ==
    LET title    == r.title
        url      == Strip(Or(r.url, ""))
        date     == Strip(Or(r.date, ""))
        domain   == Lower(Strip(Or(r.domain, "")))
        lang_raw == Lower(Strip(Or(r.language, "")))
        lang     == IF lang_raw # "" THEN normalize_lang(lang_raw)
                    ELSE normalize_lang(safe_detect_lang(title, b))
    IN  [ headline |-> Text(title),
          summary  |-> IF domain # "" THEN "Fuente: " \o domain ELSE "",
          tickers  |-> guess_tickers(title),
          category |-> classify(title),
          url      |-> url,
          ts       |-> to_iso_utc(date, c, b),
          domain   |-> domain,
          language |-> lang ]

\* lines 192-215
make_event(r, c, b) ==
    LET title    == r.title
        url      == Strip(Or(r.url, ""))
        date     == Strip(Or(r.date, ""))
        domain   == Lower(Strip(Or(r.domain, "")))
        lang_raw == Lower(Strip(Or(r.language, "")))
        lang     == IF lang_raw # "" THEN normalize_lang(lang_raw)
                    ELSE normalize_lang(safe_detect_lang(title, b))
    IN  [ headline |-> Or(Text(title), "(sin titulo)"),
          summary  |-> IF domain # "" THEN "Fuente: " \o domain ELSE "",
          tickers  |-> guess_tickers(title),
          category |-> classify(title),
          url      |-> url,
          ts       |-> to_iso_utc(date, c, b),
          domain   |-> domain,
          language |-> lang ]

\* The for loop reads b.langdetect at line 199, for a row whose language
\* strips to "", b.detect if langdetect is there, and b.iso_basic at line
\* 80, for a date that fromisoformat takes on some builds only (replace
\* keeps the length, compared first).  builds_read(rs) keeps one build of
\* each class that the rows rs cannot tell apart.
builds_read(rs) ==
    LET detects == \E i \in DOMAIN rs : Strip(Or(rs[i].language, "")) = ""
        basic   == \E i \in DOMAIN rs : \E z \in IsoBasicDates :
                      LET d == Strip(Or(rs[i].date, ""))
                      IN  Len(d) = Len(z) /\ ReplaceSpaceT(d) = z
    IN  { b \in Builds : /\ ~detects => ~b.langdetect
                         /\ ~b.langdetect => b.detect = "en"
                         /\ ~basic => ~b.iso_basic }

\* lines 191-217: the for loop over rows, on build b.  st = [seen, q, log, n]
RECURSIVE process_rows(_, _, _, _, _)
process_rows(rs, st, c, cyc, b) ==
    IF rs = << >> THEN st
    ELSE LET r   == Head(rs)
             key == poll_dedup_key(r)
         IN  IF poll_skips(key, st.seen)
             THEN process_rows(Tail(rs), st, c, cyc, b)
             ELSE LET obj == [oid |-> st.n + 1, evt |-> make_event(r, c, b)]
                  IN  process_rows(Tail(rs),
                        [ seen |-> st.seen \cup {key},
                          q    |-> Append(st.q, obj),
                          log  |-> Append(st.log, [obj |-> obj, key |-> key]),
                          n    |-> st.n + 1 ],
                        c, cyc, b)

\* Variant of backoff_on_error without the cap.
backoff_on_error_uncapped(b) == b * 2

\* line 251
backoff_on_error(b) == Min(b * 2, BACKOFF_MAX)

\* line 247
backoff_on_success(b) == POLL_INTERVAL_SEC

Subs == {"w1", "w2"}

Init ==
    /\ ppc = "entry" /\ seen = {} /\ backoff = POLL_INTERVAL_SEC
    /\ rows = << >> /\ reader = << >> /\ cycle = 0 /\ fails = 0 /\ clock = 0
    /\ news_queue = << >> /\ pushed = << >>
    /\ history = << >> /\ seen_keys = {} /\ noid = 0
    /\ bpc = "get" /\ bevt = NoObj /\ targets = {} /\ pending = {} /\ dead = {}
    /\ clients = {}
    /\ wpc = [s \in Subs |-> "new"]
    /\ conn = [s \in Subs |-> "open"]
    /\ replay = [s \in Subs |-> << >>]
    /\ recv = [s \in Subs |-> << >>]
    /\ need = [s \in Subs |-> {}]
    /\ ctitle = << >> /\ ccat = ""
    /\ spc = "idle" /\ ptask = "running" /\ btask = "running"
    /\ cancelled_is_exception = NoneVal

\* poll_news holds the event loop from its entry to its first
\* asyncio.sleep (line 253) and from each wake-up to the next sleep:
\* fetch_csv is a plain blocking call and put() on an unbounded queue
\* never suspends.  Other coroutines run only while it sleeps.
LoopFree == ppc = "sleeping"

\* Variant of PollEntry that starts fetching without the seed.
PollEntry_no_seed ==
    /\ ppc = "entry"
    /\ seen' = {}
    /\ backoff' = POLL_INTERVAL_SEC
    /\ cycle' = 1
    /\ ppc' = "fetching"
    /\ UNCHANGED << rows, reader, fails, clock, chanVars, histVars, bcastVars, wsVars,
                    clsVars, shutVars >>

\* lines 161-176: seed, then the first fetch_csv call starts
PollEntry ==
    /\ ppc = "entry"
    /\ LET obj == [oid |-> noid + 1, evt |-> seed_event(clock)]
       IN  /\ news_queue' = Append(news_queue, obj)
           /\ pushed' = Append(pushed, [obj |-> obj, key |-> NoneVal])
    /\ noid' = noid + 1
    /\ seen' = {}
    /\ backoff' = POLL_INTERVAL_SEC
    /\ cycle' = 1
    /\ ppc' = "fetching"
    /\ UNCHANGED << rows, reader, fails, clock, history, seen_keys, bcastVars, wsVars,
                    clsVars, shutVars >>

\* lines 181-247: fetch_csv returns `batch`; the whole for loop; line 253
FetchReturns(batch) ==
    /\ ppc = "fetching"
    /\ rows' = batch
    /\ \E st \in { process_rows(batch,
                    [seen |-> seen, q |-> news_queue, log |-> pushed, n |-> noid],
                    clock, cycle, b) : b \in builds_read(batch) } :
           /\ seen' = st.seen
           /\ news_queue' = st.q
           /\ pushed' = st.log
           /\ noid' = st.n
    /\ backoff' = backoff_on_success(backoff)
    /\ fails' = 0
    /\ ppc' = "sleeping"
    /\ UNCHANGED << cycle, clock, history, seen_keys, bcastVars, wsVars, clsVars, shutVars >>

\* Variant of FetchRaises without the except clause: the exception ends
\* poll_news.
FetchRaises_halts ==
    /\ ppc = "fetching"
    /\ fails' = fails + 1
    /\ ppc' = "halted"
    /\ UNCHANGED << seen, backoff, rows, cycle, clock, chanVars, histVars, bcastVars,
                    wsVars, clsVars, shutVars >>

\* lines 181, 249-253: the call of fetch_csv raises
FetchRaises ==
    /\ ppc = "fetching"
    /\ backoff' = backoff_on_error(backoff)
    /\ fails' = fails + 1
    /\ ppc' = "sleeping"
    /\ UNCHANGED << seen, rows, cycle, clock, chanVars, histVars, bcastVars,
                    wsVars, clsVars, shutVars >>

\* fetch_csv returns `batch`, the parsing of the response left aside
FetchOk(batch) == FetchReturns(batch) /\ UNCHANGED reader

\* gdelt_client.py:59-61: urlopen or read raises, nothing was parsed
FetchFail == FetchRaises /\ UNCHANGED reader

\* gdelt_client.py:73-105 and news_poller.py:181-253: the response holds the
\* records `raw`; the row loop raises or returns the normalised rows
FetchCsv(raw) ==
    /\ reader' = raw
    /\ IF fetch_rows(raw, << >>).raised
       THEN FetchRaises
       ELSE FetchReturns(fetch_rows(raw, << >>).rows)

\* line 253 returns, line 178-181: the next fetch_csv call starts
WakeWithin(maxCycles) ==
    /\ ppc = "sleeping"
    /\ cycle < maxCycles
    /\ cycle' = cycle + 1
    /\ clock' = clock + 1
    /\ ppc' = "fetching"
    /\ reader' = << >>
    /\ UNCHANGED << seen, backoff, rows, fails, chanVars, histVars, bcastVars,
                    wsVars, clsVars, shutVars >>

(***************************************************************************)
(* main.py: broadcaster_task and _broadcast                                *)
(***************************************************************************)
\* line 59: the subscribers one pass iterates over
broadcast_targets(cl) == cl

\* Variant of broadcast_rest in which a failed send ends the pass.
broadcast_rest_abort(pend, s, ok) == IF ok THEN pend \ {s} ELSE {}

\* lines 59-63: what is left to iterate after the send to s returned (ok) or
\* raised (~ok)
broadcast_rest(pend, s, ok) == pend \ {s}

\* Variant of prune that leaves the dead registered.
prune_none(cl, dd) == cl

\* lines 64-68
prune(cl, dd) == cl \ dd

\* Variant of queue_get for a last-in first-out queue.
queue_get_lifo(q) == [item |-> q[Len(q)], rest |-> SubSeq(q, 1, Len(q) - 1)]

\* line 74: news_queue.get() on the asyncio.Queue made at line 25 returns the
\* oldest item
queue_get(q) == [item |-> Head(q), rest |-> Tail(q)]

\* lines 74-76 up to the first send_json of _broadcast
Dequeue ==
    /\ LoopFree
    /\ bpc = "get"
    /\ news_queue # << >>
    /\ LET obj == queue_get(news_queue).item
           ph  == push_history(history, seen_keys, obj)
       IN  /\ bevt' = obj
           /\ history' = ph.h
           /\ seen_keys' = ph.k
           /\ need' = [s \in Subs |->
                         IF wpc[s] \in {"replay", "listen"}
                         THEN need[s] \cup {obj.oid} ELSE need[s]]
    /\ news_queue' = queue_get(news_queue).rest
    /\ targets' = broadcast_targets(clients)
    /\ pending' = targets'
    /\ dead' = {}
    /\ bpc' = IF targets' = {} THEN "get" ELSE "send"
    /\ UNCHANGED << pollVars, pushed, noid, clients, wpc, conn, replay, recv, clsVars, shutVars >>

\* lines 59-68: one `await ws.send_json(evt)` returns or raises; after the
\* last one the dead are removed
BroadcastSend(s) ==
    /\ LoopFree
    /\ bpc = "send"
    /\ s \in pending
    /\ LET ok    == conn[s] = "open"
           dead1 == IF ok THEN dead ELSE dead \cup {s}
           rest  == broadcast_rest(pending, s, ok)
       IN  /\ recv' = IF ok
                      THEN [recv EXCEPT ![s] = Append(@, [src |-> "live", oid |-> bevt.oid])]
                      ELSE recv
           /\ dead' = dead1
           /\ pending' = rest
           /\ IF rest = {}
              THEN clients' = prune(clients, dead1) /\ bpc' = "get"
              ELSE clients' = clients /\ bpc' = "send"
    /\ UNCHANGED << pollVars, chanVars, histVars, bevt, targets, wpc, conn, replay,
                    need, clsVars, shutVars >>

(***************************************************************************)
(* main.py: ws_news                                                        *)
(***************************************************************************)
\* _history[-MAX_HISTORY:]
LastN(h, n) == IF Len(h) <= n THEN h ELSE SubSeq(h, Len(h) - n + 1, Len(h))

\* Variant of snapshot for a handler that replays nothing.
snapshot_none(h) == << >>

\* line 108: the snapshot the handler replays
snapshot(h) == LastN(h, MAX_HISTORY)

\* lines 102-109, up to the first send_json
Join(s) ==
    /\ LoopFree
    /\ wpc[s] = "new"
    /\ conn[s] = "open"
    /\ clients' = clients \cup {s}
    /\ LET snap == snapshot(history)
       IN  /\ replay' = [replay EXCEPT ![s] = snap]
           /\ need' = [need EXCEPT ![s] = { history[i].oid : i \in 1..Len(history) }]
           /\ wpc' = [wpc EXCEPT ![s] = IF snap = << >> THEN "listen" ELSE "replay"]
    /\ UNCHANGED << pollVars, chanVars, histVars, bcastVars, conn, recv, clsVars, shutVars >>

\* Variant of unregister that leaves the websocket registered.
unregister_noop(cl, s) == cl

\* lines 112-115 and 128-131: clients.remove(ws), KeyError swallowed
unregister(cl, s) == cl \ {s}

\* lines 108-116: one `await ws.send_json(item)` returns, or raises and the
\* handler unregisters and suspends in `await ws.close()`
ReplaySend(s) ==
    /\ LoopFree
    /\ wpc[s] = "replay"
    /\ IF conn[s] = "open"
       THEN /\ recv' = [recv EXCEPT ![s] =
                          Append(@, [src |-> "hist", oid |-> Head(replay[s]).oid])]
            /\ replay' = [replay EXCEPT ![s] = Tail(@)]
            /\ wpc' = [wpc EXCEPT ![s] =
                          IF Tail(replay[s]) = << >> THEN "listen" ELSE "replay"]
            /\ UNCHANGED << clients, conn >>
       ELSE /\ clients' = unregister(clients, s)
            /\ replay' = [replay EXCEPT ![s] = << >>]
            /\ wpc' = [wpc EXCEPT ![s] = "closing"]
            /\ UNCHANGED << conn, recv >>
    /\ UNCHANGED << pollVars, chanVars, histVars, bcastVars, need, clsVars, shutVars >>

\* lines 116-117: `await ws.close()` returns or raises, the handler ends
ReplayClose(s) ==
    /\ LoopFree
    /\ wpc[s] = "closing"
    /\ conn' = [conn EXCEPT ![s] = "closed"]
    /\ wpc' = [wpc EXCEPT ![s] = "closed"]
    /\ UNCHANGED << pollVars, chanVars, histVars, bcastVars, clients, replay, recv,
                    need, clsVars, shutVars >>

\* lines 121-131: receive_text raises WebSocketDisconnect
Leave(s) ==
    /\ LoopFree
    /\ wpc[s] = "listen"
    /\ conn[s] = "closed"
    /\ clients' = unregister(clients, s)
    /\ wpc' = [wpc EXCEPT ![s] = "done"]
    /\ UNCHANGED << pollVars, chanVars, histVars, bcastVars, conn, replay, recv,
                    need, clsVars, shutVars >>

\* the peer of a connected websocket goes away (the transport, outside the code)
Disconnect(s) ==
    /\ wpc[s] \in {"replay", "listen"}
    /\ conn[s] = "open"
    /\ conn' = [conn EXCEPT ![s] = "closed"]
    /\ UNCHANGED << pollVars, chanVars, histVars, bcastVars, clients, wpc, replay,
                    recv, need, clsVars, shutVars >>

Wake == WakeWithin(MaxCycles)

Next ==
    \/ PollEntry
    \/ \E b \in Batches(LiveFeed, MaxBatch) : FetchOk(b)
    \/ FetchFail
    \/ Wake
    \/ Dequeue
    \/ \E s \in Subs : BroadcastSend(s)
    \/ \E s \in Subs : Join(s)
    \/ \E s \in Subs : ReplaySend(s)
    \/ \E s \in Subs : ReplayClose(s)
    \/ \E s \in Subs : Leave(s)
    \/ \E s \in Subs : Disconnect(s)

Spec == Init /\ [][Next]_vars

(***************************************************************************)
(* SpecPoll: the poll loop and the broadcaster with nobody connected, over *)
(* more cycles and larger batches.                                         *)
(***************************************************************************)
PollWake == WakeWithin(MaxPollCycles)

NextPoll ==
    \/ PollEntry
    \/ \E b \in Batches(Feed, MaxPollBatch) : FetchOk(b)
    \/ FetchFail
    \/ PollWake
    \/ Dequeue

SpecPoll == Init /\ [][NextPoll]_vars

\* the rows of SpecPollFair: RowBasic has the date that only some builds
\* parse
FairFeed == {RowUrl, RowBasic}

\* SpecPollFair: the poll loop and the broadcaster over the rows of
\* FairFeed, with the scheduling the code relies on: the event loop runs a
\* task that is ready (poll_news' first step), asyncio.sleep(backoff)
\* returns after the finite backoff, and fetch_csv returns or raises (its
\* socket operations have a 12 s timeout).
NextPollLive ==
    \/ PollEntry
    \/ \E b \in Batches(FairFeed, MaxPollBatch) : FetchOk(b)
    \/ FetchFail
    \/ PollWake
    \/ Dequeue

SpecPollFair ==
    /\ Init /\ [][NextPollLive]_vars
    /\ WF_vars(PollEntry)
    /\ WF_vars(PollWake)
    /\ WF_vars(FetchFail \/ \E b \in Batches(FairFeed, MaxPollBatch) : FetchOk(b))

(***************************************************************************)
(* SpecWire: the whole pipeline with one websocket, fed the row without a  *)
(* title and the row without a language.                                   *)
(***************************************************************************)
WireFeed == {RowNoTitle, RowRfc}

NextWire ==
    \/ PollEntry
    \/ \E b \in Batches(WireFeed, MaxBatch) : FetchOk(b)
    \/ FetchFail
    \/ Wake
    \/ Dequeue
    \/ BroadcastSend("w1")
    \/ Join("w1")
    \/ ReplaySend("w1")
    \/ ReplayClose("w1")
    \/ Leave("w1")
    \/ Disconnect("w1")

SpecWire == Init /\ [][NextWire]_vars

(***************************************************************************)
(* SpecFetch: the poll loop and the broadcaster, the responses given as    *)
(* the records fetch_csv parses, short lines included.                     *)
(***************************************************************************)
NextFetch ==
    \/ PollEntry
    \/ \E raw \in Batches(RawFeed, MaxRawBatch) : FetchCsv(raw)
    \/ FetchFail
    \/ Wake
    \/ Dequeue

SpecFetch == Init /\ [][NextFetch]_vars

(***************************************************************************)
(* main.py: _on_shutdown.  SpecShutdown: the poll loop and the broadcaster *)
(* with nobody connected, and the shutdown handler called at any moment    *)
(* at which the event loop is free.  A task runs only until it is          *)
(* cancelled; with nobody connected broadcaster_task is always suspended   *)
(* in news_queue.get() when the event loop is free.                        *)
(***************************************************************************)
\* lines 90-95, first iteration: poller_task.cancel(), then `await task`
\* suspends the handler
ShutdownStart ==
    /\ LoopFree
    /\ spc = "idle"
    /\ ptask = "running" /\ btask = "running"
    /\ ptask' = "cancelling"
    /\ spc' = "await_poller"
    /\ \E c \in BOOLEAN : cancelled_is_exception' = c
    /\ UNCHANGED << pollVars, chanVars, histVars, bcastVars, wsVars, clsVars, btask >>

\* news_poller.py:253: CancelledError is raised in poll_news at
\* `await asyncio.sleep(backoff)`, outside the try; the task ends cancelled
PollerCancelled ==
    /\ ptask = "cancelling"
    /\ ptask' = "cancelled"
    /\ UNCHANGED << pollVars, chanVars, histVars, bcastVars, wsVars, clsVars,
                    spc, btask, cancelled_is_exception >>

\* lines 94-97: `await task` raises CancelledError in the handler; `except
\* Exception` catches it only if CancelledError is an Exception.  Caught:
\* second iteration, broadcast_task.cancel() and `await task`.  Not caught:
\* the exception leaves the for loop and the handler.
ShutdownAfterPoller ==
    /\ spc = "await_poller"
    /\ ptask = "cancelled"
    /\ IF cancelled_is_exception
       THEN btask' = "cancelling" /\ spc' = "await_bcast"
       ELSE btask' = btask /\ spc' = "raised"
    /\ UNCHANGED << pollVars, chanVars, histVars, bcastVars, wsVars, clsVars,
                    ptask, cancelled_is_exception >>

\* main.py:74: CancelledError is raised in broadcaster_task at
\* `await news_queue.get()`; the task ends cancelled
BroadcasterCancelled ==
    /\ btask = "cancelling"
    /\ bpc = "get"
    /\ btask' = "cancelled"
    /\ UNCHANGED << pollVars, chanVars, histVars, bcastVars, wsVars, clsVars,
                    spc, ptask, cancelled_is_exception >>

\* lines 94-97, second iteration: `await task` raises CancelledError, which
\* is caught (the handler got here only with CancelledError an Exception);
\* the loop and the handler end
ShutdownAfterBroadcaster ==
    /\ spc = "await_bcast"
    /\ btask = "cancelled"
    /\ spc' = IF cancelled_is_exception THEN "done" ELSE "raised"
    /\ UNCHANGED << pollVars, chanVars, histVars, bcastVars, wsVars, clsVars,
                    ptask, btask, cancelled_is_exception >>

NextShutdown ==
    \/ ptask = "running" /\ PollEntry
    \/ ptask = "running" /\ \E b \in Batches(LiveFeed, MaxBatch) : FetchOk(b)
    \/ ptask = "running" /\ FetchFail
    \/ ptask = "running" /\ Wake
    \/ btask = "running" /\ Dequeue
    \/ ShutdownStart
    \/ PollerCancelled
    \/ ShutdownAfterPoller
    \/ BroadcasterCancelled
    \/ ShutdownAfterBroadcaster

SpecShutdown == Init /\ [][NextShutdown]_vars

(***************************************************************************)
(* SpecHist: _push_history called with arbitrary event dicts, including    *)
(* dicts with padded fields, without "url", and with "timestamp" in place  *)
(* of "ts".                                                                *)
(***************************************************************************)
HistEvents ==
    { [headline |-> h, url |-> u, ts |-> "t1"] :
        h \in {"A", " A", "B"},
        u \in {"", " ", "http://a.com/1", "http://a.com/1 "} }
    \cup { [headline |-> "A", timestamp |-> "t1"],
           [headline |-> "B", ts |-> "t2"] }

\* main.py:75 with `evt` an arbitrary dict
Insert(e) ==
    /\ noid < MaxInserts
    /\ LET obj == [oid |-> noid + 1, evt |-> e]
           ph  == push_history(history, seen_keys, obj)
       IN  /\ bevt' = obj
           /\ history' = ph.h
           /\ seen_keys' = ph.k
    /\ noid' = noid + 1
    /\ UNCHANGED << pollVars, chanVars, bpc, targets, pending, dead, wsVars, clsVars, shutVars >>

NextHist == \E e \in HistEvents : Insert(e)

SpecHist == Init /\ [][NextHist]_vars

(***************************************************************************)
(* SpecClassify: classify called with the titles made of distinct words of *)
(* ClassifyWords, in any order.                                            *)
(***************************************************************************)
ClassifyWords ==
    {"government", "stake", "CEO", "resigns", "merger", "earnings", "contract"}

AddWord(w) ==
    /\ ccat = ""
    /\ Len(ctitle) < MaxTitleLen
    /\ w \notin Range(ctitle)
    /\ ctitle' = Append(ctitle, w)
    /\ UNCHANGED << pollVars, chanVars, histVars, bcastVars, wsVars, ccat, shutVars >>

\* news_poller.py:210
Classify ==
    /\ ccat = ""
    /\ ccat' = classify(ctitle)
    /\ UNCHANGED << pollVars, chanVars, histVars, bcastVars, wsVars, ctitle, shutVars >>

NextClassify ==
    \/ \E w \in ClassifyWords : AddWord(w)
    \/ Classify

SpecClassify == Init /\ [][NextClassify]_vars

(***************************************************************************)
(* Properties                                                              *)
(***************************************************************************)
HistKeys == { dedup_key(history[i].evt) : i \in 1..Len(history) }
HistOids == { history[i].oid : i \in 1..Len(history) }

\* C1 (SpecHist): after any sequence of _push_history calls the retained
\* sequence has at most MAX_HISTORY elements and no two of them have the
\* same dedup key (the url if non-empty, else headline|timestamp, fields
\* trimmed).
C1_BoundedNoDuplicateKey ==
    /\ Len(history) <= MAX_HISTORY
    /\ \A i \in 1..Len(history) : \A j \in 1..Len(history) :
          i # j => dedup_key(history[i].evt) # dedup_key(history[j].evt)

\* C1 witness: a full buffer that has evicted its first element, right
\* after an insert that was refused because its key is retained.
C1_Witness ==
    /\ Len(history) = MAX_HISTORY
    /\ history[1].oid > 1
    /\ bevt.oid = noid
    /\ bevt.oid \notin HistOids
    /\ dedup_key(bevt.evt) \in HistKeys

\* C5 (SpecHist): in every reachable buffer state, inserting an event whose
\* dedup key is retained changes neither the sequence nor the key set, and
\* inserting any event twice in a row gives the state that inserting it
\* once gives.
C5_InsertIdempotent ==
    \A e \in HistEvents :
        LET obj   == [oid |-> noid + 1, evt |-> e]
            once  == push_history(history, seen_keys, obj)
            twice == push_history(once.h, once.k, obj)
        IN  /\ dedup_key(e) \in HistKeys
                => once = [h |-> history, k |-> seen_keys]
            /\ twice = once

\* C5 witness: the last insert had the key of a retained event with another
\* dict (padded url) and was not retained.
C5_Witness ==
    /\ bevt.oid = noid
    /\ bevt.oid \notin HistOids
    /\ \E i \in 1..Len(history) :
          /\ dedup_key(history[i].evt) = dedup_key(bevt.evt)
          /\ history[i].evt # bevt.evt

\* C6 (SpecHist): an insert that retains its event in a full buffer evicts
\* exactly the oldest retained element, and the retained sequence is always
\* in insertion order.
C6_FifoEviction ==
    [][ /\ ( /\ bevt' # bevt
             /\ Len(history) = MAX_HISTORY
             /\ bevt' \in Range(history') )
           => history' = Append(Tail(history), bevt')
        /\ \A i \in 1..Len(history') : \A j \in 1..Len(history') :
              i < j => history'[i].oid < history'[j].oid ]_vars

\* C6 witness: a full buffer whose newest element was just retained, whose
\* oldest insert was evicted, with a refused duplicate insert in between.
C6_Witness ==
    /\ Len(history) = MAX_HISTORY
    /\ history[Len(history)] = bevt
    /\ history[1].oid > 1
    /\ history[Len(history)].oid - history[1].oid > MAX_HISTORY - 1

RecvOids(s) == { recv[s][i].oid : i \in 1..Len(recv[s]) }
ReplayOids(s) == { replay[s][i].oid : i \in 1..Len(replay[s]) }
Times(s, o) == Cardinality({ i \in 1..Len(recv[s]) : recv[s][i].oid = o })

\* C2 (Spec): a websocket is sent every event of its history snapshot,
\* oldest first, before it is sent any event by _broadcast: no replayed
\* event follows a broadcast one in what it was sent, and nothing is
\* broadcast to it while its replay is unfinished.
C2_HistoryBeforeLive ==
    \A s \in Subs :
        /\ \A i \in 1..Len(recv[s]) : \A j \in 1..Len(recv[s]) :
              (i < j /\ recv[s][j].src = "hist")
                 => (recv[s][i].src = "hist" /\ recv[s][i].oid < recv[s][j].oid)
        /\ wpc[s] = "replay"
              => \A i \in 1..Len(recv[s]) : recv[s][i].src = "hist"

\* C3 (Spec): for a websocket whose sends have all succeeded, every event
\* retained at its join or dequeued since has been sent to it, is still in
\* the snapshot it is replaying, or is the event of the pass that has it
\* pending; and no event was sent to it more than twice.
C3_NoGapAtMostTwice ==
    \A s \in Subs :
        (wpc[s] \in {"replay", "listen"} /\ conn[s] = "open")
          => /\ need[s] \subseteq
                   RecvOids(s) \cup ReplayOids(s)
                     \cup (IF bpc = "send" /\ s \in pending THEN {bevt.oid} ELSE {})
             /\ \A o \in RecvOids(s) : Times(s, o) <= 2

\* C3 witness: a websocket that joined during the broadcaster's activity,
\* was sent a broadcast event before the last event of its snapshot, and
\* now holds everything owed to it.
C3_Witness ==
    \E s \in Subs :
        /\ wpc[s] = "listen" /\ conn[s] = "open" /\ bpc = "get"
        /\ Cardinality(need[s]) >= 2
        /\ need[s] \subseteq RecvOids(s)
        /\ \E i \in 1..Len(recv[s]) : \E j \in 1..Len(recv[s]) :
              i < j /\ recv[s][i].src = "live" /\ recv[s][j].src = "hist"

\* C4 (Spec): in a pass of _broadcast every websocket of list(clients)
\* already iterated either had its send fail (it is in `dead`) or was sent
\* the event, and the pass ends only when all of them were iterated.
C4_DeliveryIsolation ==
    /\ bpc = "get" => pending = {}
    /\ \A s \in targets \ pending :
          \/ s \in dead
          \/ \E i \in 1..Len(recv[s]) : recv[s][i] = [src |-> "live", oid |-> bevt.oid]

\* C4 witness: a finished pass in which one send failed and another
\* websocket was sent the event.
C4_Witness ==
    /\ bpc = "get"
    /\ dead # {}
    /\ \E s \in targets \ dead :
          \E i \in 1..Len(recv[s]) : recv[s][i] = [src |-> "live", oid |-> bevt.oid]

\* C7 (SpecPoll): the backoff poll_news sleeps with is 30 after a cycle that
\* succeeded and min(30 * 2^k, 300) after k >= 1 consecutive failed cycles;
\* it is always within [30, 300].
C7_BackoffSchedule ==
    /\ backoff >= POLL_INTERVAL_SEC /\ backoff <= BACKOFF_MAX
    /\ ppc # "entry" =>
          backoff = IF fails = 0 THEN POLL_INTERVAL_SEC
                    ELSE Min(POLL_INTERVAL_SEC * 2^fails, BACKOFF_MAX)

\* C7 witness: the loop sleeps at the cap after four failed cycles in a row
\* that followed a successful one.
C7_Witness ==
    /\ ppc = "sleeping"
    /\ fails = 4
    /\ cycle = 5
    /\ backoff = BACKOFF_MAX

\* C8 (SpecPoll): no two objects ever put on the queue by the for loop have
\* the same poll-loop dedup key, and the key of each of them stays in `seen`.
C8_OnePushPerPollKey ==
    \A i \in 1..Len(pushed) :
        pushed[i].key # NoneVal
          => /\ pushed[i].key \in seen
             /\ \A j \in 1..Len(pushed) : i # j => pushed[j].key # pushed[i].key

\* C8 witness: the batch of a later cycle lists only a row whose event was
\* put on the queue in an earlier cycle and has since left the history.
C8_Witness ==
    /\ ppc = "sleeping"
    /\ rows = <<RowUrl>>
    /\ \E i \in 1..Len(pushed) :
          /\ i < Len(pushed)
          /\ pushed[i].key = poll_dedup_key(RowUrl)
          /\ pushed[i].obj.oid \notin HistOids
          /\ pushed[i].obj \notin Range(news_queue)
          /\ pushed[i].obj.oid < history[1].oid

\* C9 (SpecPoll): before poll_news is entered nothing is on the queue and no
\* fetch was started; once a fetch was started the first object ever put on
\* the queue is the seed (category Info), and no later one has category Info.
C9_SeedFirstOnce ==
    /\ ppc = "entry" => (pushed = << >> /\ cycle = 0)
    /\ cycle >= 1 =>
          /\ Len(pushed) >= 1
          /\ pushed[1].obj.evt = seed_event(0)
          /\ pushed[1].obj.evt.category = "Info"
          /\ \A i \in 2..Len(pushed) : pushed[i].obj.evt.category # "Info"

\* C9 witness: later cycles have put further events on the queue behind the
\* seed.
C9_Witness ==
    /\ cycle >= 2
    /\ Len(pushed) >= 3
    /\ pushed[1].obj.evt.category = "Info"

\* the rules of classify in their order, and the rules a title matches
RuleCategory == <<"GovStake", "CEOResignation", "M&A", "Earnings", "Contract">>
RuleMatches(i, t) ==
    CASE i = 1 -> RE_GOV_STAKE(t)
      [] i = 2 -> RE_CEO_RESIGN(t)
      [] i = 3 -> RE_MA(t)
      [] i = 4 -> RE_EARNINGS(t)
      [] i = 5 -> RE_CONTRACT(t)
Matching(t) == { i \in 1..5 : RuleMatches(i, t) }

\* C10 (SpecClassify): classify returns the category of the first rule, in
\* the order GovStake, CEOResignation, M&A, Earnings, Contract, that the
\* title matches, and News when it matches none.
C10_FirstMatchWins ==
    ccat # "" =>
        LET m == Matching(ctitle)
        IN  IF m = {} THEN ccat = "News"
            ELSE \E i \in m : /\ \A j \in m : i <= j
                              /\ ccat = RuleCategory[i]

\* C10 witness: a title that matches all five rules, the contract word
\* first, classified GovStake.
C10_Witness ==
    /\ Matching(ctitle) = 1..5
    /\ ctitle[1] = "contract"
    /\ ccat = "GovStake"

\* the event dicts delivered to websocket s, by replay or by a live pass
Delivered(s) == { pushed[recv[s][i].oid].obj.evt : i \in 1..Len(recv[s]) }

\* the fields of the event dicts poll_news builds
WIRE_FIELDS ==
    {"headline", "summary", "tickers", "category", "url", "ts", "domain", "language"}

\* C11 (SpecWire), as amended: every event dict sent to a websocket, the
\* seed and the enriched events alike, has exactly the fields headline,
\* summary, tickers, category, url, ts, domain, language (the time field is
\* named "ts"), and its headline is not empty.
C11_WireShape ==
    \A s \in Subs : \A e \in Delivered(s) :
        /\ DOMAIN e = WIRE_FIELDS
        /\ e.headline # ""

\* C11 as stated: the delivered dicts have a field named "timestamp".
C11_WireShapeTimestamp ==
    \A s \in Subs : \A e \in Delivered(s) :
        /\ DOMAIN e = {"headline", "summary", "tickers", "category", "url",
                       "timestamp", "domain", "language"}
        /\ e.headline # ""

\* C11 witness: a websocket has been sent the seed event and the event made
\* from the row without a title, which carries the placeholder headline.
C11_Witness ==
    \E e1, e2 \in Delivered("w1") :
        /\ e1.category = "Info"
        /\ e2.url = RowNoTitle.url
        /\ e2.headline = "(sin titulo)"

\* C12 (SpecPoll): _seen_keys is exactly the set of the dedup keys of the
\* events in _history, and the two have the same length; the key of an
\* evicted event is discarded with it.
C12_KeySetConsistent ==
    /\ seen_keys = HistKeys
    /\ Len(history) = Cardinality(seen_keys)

\* C12 witness: an event was retained, then evicted, and a later event with
\* the same dedup key is retained now.
C12_Witness ==
    \E i, j \in 1..Len(pushed) :
        /\ i < j
        /\ dedup_key(pushed[i].obj.evt) = dedup_key(pushed[j].obj.evt)
        /\ \A n \in 1..(i - 1) :
              dedup_key(pushed[n].obj.evt) # dedup_key(pushed[i].obj.evt)
        /\ pushed[i].obj.oid \notin HistOids
        /\ pushed[j].obj.oid \in HistOids

\* C13 (SpecPoll): poll_news never puts on the queue two events with equal
\* dedup keys (url if non-empty, else headline|timestamp of the event), so
\* every event the broadcaster takes from the queue is retained by
\* _push_history.
C13_NoEqualKeyPushed ==
    /\ \A i, j \in 1..Len(pushed) :
          i # j => dedup_key(pushed[i].obj.evt) # dedup_key(pushed[j].obj.evt)
    /\ bevt # NoObj => bevt.oid \in HistOids

\* C14 (SpecFetch): when one record of a fetched batch cannot be processed,
\* only that record is skipped: every other record of the batch that is
\* not blank has been put on the queue by the end of the cycle (in this
\* cycle or, being a duplicate, in an earlier one), and the cycle does not
\* count as a failed fetch.
C14_RecordErrorContained ==
    (ppc = "sleeping" /\ \E i \in 1..Len(reader) : row_raises(reader[i])) =>
        /\ fails = 0
        /\ \A i \in 1..Len(reader) :
              (~row_raises(reader[i]) /\ ~row_dropped(reader[i])) =>
                  \E n \in 1..Len(pushed) :
                      pushed[n].key = poll_dedup_key(normalize_row(reader[i]))

\* C15 (Spec): once a pass of _broadcast is over, every websocket whose
\* send failed in it is out of `clients`, and every websocket whose send
\* succeeded is still in `clients` unless its own handler has removed it;
\* removing a websocket that is already out raises nothing and changes
\* nothing.
C15_PrunedAfterPass ==
    bpc = "get" =>
        \A s \in targets :
            /\ s \in dead => s \notin clients
            /\ s \notin dead =>
                  (s \in clients \/ wpc[s] \in {"done", "closing", "closed"})

\* C15 witness: after a pass one websocket failed and has also been removed
\* by its own handler, the other was sent the event and is registered.
C15_Witness ==
    /\ bpc = "get"
    /\ \E s \in dead : wpc[s] \in {"done", "closing", "closed"}
    /\ \E t \in targets \ dead :
          /\ t \in clients
          /\ \E i \in 1..Len(recv[t]) : recv[t][i] = [src |-> "live", oid |-> bevt.oid]

\* the oids of the events sent live to websocket s, in the order sent
RECURSIVE LiveOids(_)
LiveOids(rc) ==
    IF rc = << >> THEN << >>
    ELSE IF Head(rc).src = "live" THEN << Head(rc).oid >> \o LiveOids(Tail(rc))
    ELSE LiveOids(Tail(rc))

Increasing(q) == \A i, j \in 1..Len(q) : i < j => q[i] < q[j]

\* C16 (Spec): events leave the queue, enter _history and are sent live to
\* each websocket in the order poll_news put them on the queue (oids
\* number the events in that order): the queue and _history are in put
\* order, what is queued was put after the event being broadcast, and each
\* websocket's live deliveries are in put order.
C16_OrderPreserved ==
    /\ \A n \in 1..Len(pushed) : pushed[n].obj.oid = n
    /\ Increasing([i \in 1..Len(news_queue) |-> news_queue[i].oid])
    /\ \A i \in 1..Len(news_queue) : bevt.oid < news_queue[i].oid
    /\ Increasing([i \in 1..Len(history) |-> history[i].oid])
    /\ \A s \in Subs : Increasing(LiveOids(recv[s]))

\* C16 witness: two events put one after the other are both in _history and
\* were both sent live to a websocket, in that order.
C16_Witness ==
    \E s \in Subs :
        /\ Len(LiveOids(recv[s])) >= 2
        /\ Len(history) = 2
        /\ LiveOids(recv[s])[2] = history[2].oid
        /\ LiveOids(recv[s])[1] = history[1].oid

\* C17 (Spec): while poll_news is inside a fetch, the broadcaster can take
\* a queued event, a pass in progress can send to its next websocket, and a
\* new websocket can be accepted and registered.
C17_FetchDoesNotStall ==
    ppc = "fetching" =>
        /\ (bpc = "get" /\ news_queue # << >>) => ENABLED Dequeue
        /\ \A s \in Subs : (bpc = "send" /\ s \in pending) => ENABLED BroadcastSend(s)
        /\ \A s \in Subs : (wpc[s] = "new" /\ conn[s] = "open") => ENABLED Join(s)

\* C18 (SpecShutdown): when _on_shutdown, called with both tasks running,
\* has finished, both poller_task and broadcast_task have been cancelled
\* and have ended; how the first task's cancellation turned out does not
\* keep the second from being cancelled.
C18_BothTasksCancelled ==
    spc \in {"done", "raised"} => (ptask = "cancelled" /\ btask = "cancelled")

\* C19 (Spec): when a send_json of the replay raises, that step of the
\* handler takes the websocket out of `clients` and goes on to close it,
\* without sending anything more and without touching any other
\* websocket's registration, whether or not _broadcast has pruned or will
\* prune the same websocket; from there the handler can only end, with the
\* connection closed, never listen, and its websocket stays out of
\* `clients`; a handler that has ended stays ended.
C19_ReplayFailure ==
    [][\A s \in Subs :
         /\ (wpc[s] = "replay" /\ conn[s] = "closed"
               /\ (wpc'[s] # wpc[s] \/ replay'[s] # replay[s])) =>
                /\ wpc'[s] = "closing"
                /\ s \notin clients'
                /\ recv'[s] = recv[s]
                /\ \A t \in Subs \ {s} : (t \in clients') <=> (t \in clients)
         /\ wpc[s] = "closing" =>
                /\ wpc'[s] \in {"closing", "closed"}
                /\ wpc'[s] = "closed" => conn'[s] = "closed"
                /\ s \notin clients'
                /\ recv'[s] = recv[s]
         /\ wpc[s] \in {"done", "closed"} =>
                (wpc'[s] = wpc[s] /\ s \notin clients')]_vars

\* C19 witness: the replay to one websocket failed and its handler has
\* closed it and ended, a pass of _broadcast also found it dead and pruned
\* it, and the other websocket is registered.
C19_Witness ==
    \E s \in Subs :
        /\ wpc[s] = "closed"
        /\ bpc = "get" /\ s \in dead
        /\ s \notin clients
        /\ \E t \in Subs \ {s} : t \in clients

\* C20 (SpecPollFair): poll_news never halts: every fetch, returned or
\* raised, is followed by the sleep, every sleep of a cycle below the bound
\* of the model is followed by the fetch of the next cycle, and whenever a
\* cycle has succeeded, after failed cycles or not, every row of its batch
\* that has a key has been put on the queue.
C20_PollLoopLive ==
    /\ (ppc = "entry") ~> (ppc = "fetching")
    /\ (ppc = "fetching") ~> (ppc = "sleeping")
    /\ \A c \in 1..(MaxPollCycles - 1) :
          (ppc = "sleeping" /\ cycle = c) ~> (ppc = "fetching" /\ cycle = c + 1)
    /\ []((ppc = "sleeping" /\ fails = 0) =>
            \A i \in 1..Len(rows) :
                \/ poll_dedup_key(rows[i]) = ""
                \/ \E n \in 1..Len(pushed) : pushed[n].key = poll_dedup_key(rows[i]))

\* C20 witness: after two failed cycles in a row the third fetch is under
\* way, with the backoff those failures left.
C20_Witness ==
    /\ ppc = "fetching"
    /\ cycle = 3
    /\ fails = 2
    /\ backoff = 120

=============================================================================
